---- MODULE Spec2Model ----
(***************************************************************************)
(* On-board computer (komp_poklad.ino): three pulse counters incremented   *)
(* by interrupt handlers, a cooperative main loop with two time cadences   *)
(* and a distance-triggered snapshot/reset of the counters, the fuel       *)
(* consumption computation and the low-fuel alarm latch.                   *)
(*                                                                         *)
(* Target: SparkFun Pro Micro (8-bit AVR).  "unsigned short" is 16 bits,   *)
(* "unsigned long" is 32 bits, a 16-bit variable is read one byte at a     *)
(* time, and each external interrupt line has a one-bit pending flag.      *)
(*                                                                         *)
(* pulses, snapSum, deferred, entry, tonesSinceArm, wasDIS, tonePlayed,    *)
(* divZero, sinceFast, sinceSlow, trains and ticks are history variables:  *)
(* no statement of the program reads them.                                 *)
(***************************************************************************)
EXTENDS Integers, Sequences, FiniteSets, TLC

\* ------------------------------------------------------------ bounds ----
MaxTrains == 4      \* pulse trains and masked edges in a run
MaxTicks  == 3      \* loop iterations in which the millisecond clock moved

\* ------------------------------------------------- program constants ----
CounterMod     == 65536   \* unsigned short int
fuelMax        == 21
fuelAlarm      == 4
distance       == 500
wheelCircumMM  == 1915    \* float wheelCircum = 1.915, in thousandths
interval       == 5000
PulsesPerLitre == 450
FastInterval   == 1000
SlowInterval   == 15000
RearmPercent   == 80
AnalogMax      == 1023

Lines == {"flow1", "flow2", "wheel"}

\* ------------------------------------------------------ input domains ---
\* A pulse train is k rising edges on one line, each served by its handler
\* before the main loop executes another statement.
TrainFlow1 == {1, 65535}
TrainFlow2 == {1}
TrainWheel == {1, 255, 261}
\* milliseconds elapsed between two consecutive reads of millis()
Deltas == {0, 1000, 15000}
\* raw 10-bit readings of the fuel sender (A1)
AnalogSamples == {10, 68, 69, 200, 272, 273, 307}
\* snapshots handed to consumption() when it is examined on its own
ConsFlows  == {0, 1, 450, 900, 65535}
ConsWheels == {0, 100, 261, 262, 523}

\* ------------------------------------------- 32-bit unsigned arithmetic --
\* An unsigned long is kept as two 16-bit halves.
U32(n) == [hi |-> n \div 65536, lo |-> n % 65536]

U32Add(a, b) ==
    LET lo == a.lo + b.lo
    IN  [hi |-> (a.hi + b.hi + lo \div 65536) % 65536, lo |-> lo % 65536]

U32Sub(a, b) ==
    LET borrow == IF a.lo < b.lo THEN 1 ELSE 0
    IN  [hi |-> (a.hi - b.hi - borrow + 131072) % 65536,
         lo |-> (a.lo - b.lo + 65536) % 65536]

\* a >= n for a 32-bit a and a literal n < 65536
U32Ge(a, n) == a.hi > 0 \/ a.lo >= n

\* --------------------------------------------- exact decimal arithmetic --
\* Non-negative integers of any size, little-endian in base 10000.
BigBase == 10000

RECURSIVE BigMulCarry(_, _, _)
BigMulCarry(x, m, carry) ==
    IF x = <<>>
    THEN IF carry = 0 THEN <<>>
         ELSE <<carry % BigBase>> \o BigMulCarry(<<>>, m, carry \div BigBase)
    ELSE LET t == Head(x) * m + carry
         IN  <<t % BigBase>> \o BigMulCarry(Tail(x), m, t \div BigBase)

BigMul(x, m) == BigMulCarry(x, m, 0)

RECURSIVE BigDivRem(_, _)
BigDivRem(x, s) ==
    IF x = <<>>
    THEN [q |-> <<>>, r |-> 0]
    ELSE LET up  == BigDivRem(Tail(x), s)
             cur == up.r * BigBase + Head(x)
         IN  [q |-> <<cur \div s>> \o up.q, r |-> cur % s]

BigDiv(x, s) == BigDivRem(x, s).q

RECURSIVE BigMulAll(_, _)
BigMulAll(x, ms) ==
    IF ms = <<>> THEN x ELSE BigMulAll(BigMul(x, Head(ms)), Tail(ms))

RECURSIVE BigDivAll(_, _)
BigDivAll(x, ss) ==
    IF ss = <<>> THEN x ELSE BigDivAll(BigDiv(x, Head(ss)), Tail(ss))

RECURSIVE BigToInt(_)
BigToInt(x) == IF x = <<>> THEN 0 ELSE Head(x) + BigBase * BigToInt(Tail(x))

RECURSIVE BigIsZero(_)
BigIsZero(x) == IF x = <<>> THEN TRUE ELSE Head(x) = 0 /\ BigIsZero(Tail(x))

Abs(n) == IF n < 0 THEN -n ELSE n


\* ------------------------------------------------------------- state ----
VARIABLES
    pc,           \* position of the main program
    ret,          \* where fuel() returns to (setup or loop)
    intEnabled,   \* global interrupt enable (SREG I bit)
    pending,      \* per line: interrupt flag latched while not served
    countFlow1, countFlow2, countWheel,
    copyFlow1, copyFlow2, copyWheel,
    buzzDIS,
    millis,       \* hardware millisecond clock
    time_now, temper_time, rtc_time,
    sinceFast,    \* milliseconds from the last firing of the fast cadence to
                  \* the last read of millis()
    sinceSlow,    \* the same for the slow cadence
    fuelPerc,     \* local of fuel(): last percentage evaluated
    regWheel,     \* bytes of countWheel already fetched by the threshold test
    served,       \* a handler has run since the first byte was fetched
    lcd,          \* what the last consumption() call printed on row 2, in order
    divZero,      \* the last consumption() call divided by a zero distance
    pulses,       \* per line: rising edges generated so far
    snapSum,      \* per line: sum of the values copied into snapshots so far
    deferred,     \* per line: edges that arrived in the critical section in
                  \* progress or just left
    entry,        \* counter triple at the last noInterrupts()
    trains, ticks,   \* budgets used
    tonesSinceArm,   \* tone sequences played since the last fuel() with >= 80 %
    wasDIS,       \* buzzDIS at the start of the fuel() call in progress
    tonePlayed    \* the fuel() call in progress played the tone sequence

vars == <<pc, ret, intEnabled, pending, countFlow1, countFlow2, countWheel,
          copyFlow1, copyFlow2, copyWheel, buzzDIS, millis, time_now,
          temper_time, rtc_time, sinceFast, sinceSlow, fuelPerc, regWheel,
          served, lcd, divZero,
          pulses, snapSum, deferred, entry, trains, ticks,
          tonesSinceArm, wasDIS, tonePlayed>>

counters == <<countFlow1, countFlow2, countWheel>>
copies   == <<copyFlow1, copyFlow2, copyWheel>>
clocks   == <<millis, time_now, temper_time, rtc_time, sinceFast, sinceSlow>>
alarm    == <<buzzDIS, fuelPerc, tonesSinceArm, wasDIS, tonePlayed>>
shown    == <<lcd, divZero>>
fetch    == <<regWheel, served>>
ghosts   == <<pulses, snapSum, deferred, entry, trains>>

NoLine == [l \in Lines |-> FALSE]
Zero3  == [l \in Lines |-> 0]

Count(l) == CASE l = "flow1" -> countFlow1
              [] l = "flow2" -> countFlow2
              [] l = "wheel" -> countWheel

AnyPending == \E l \in Lines : pending[l]

\* The main program executes its next statement: with interrupts enabled a
\* latched interrupt is served first.
MainRuns == intEnabled => ~AnyPending

Init ==
    /\ pc = "setup" /\ ret = "attach"
    /\ intEnabled = TRUE /\ pending = NoLine
    /\ countFlow1 = 0 /\ countFlow2 = 0 /\ countWheel = 0
    /\ copyFlow1 = 0 /\ copyFlow2 = 0 /\ copyWheel = 0
    /\ buzzDIS = 0
    /\ millis = U32(0) /\ time_now = U32(0)
    /\ temper_time = U32(0) /\ rtc_time = U32(0)
    /\ sinceFast = 0 /\ sinceSlow = 0
    /\ fuelPerc = 0 /\ regWheel = 0 /\ served = FALSE
    /\ lcd = <<>> /\ divZero = FALSE
    /\ pulses = Zero3 /\ snapSum = Zero3 /\ deferred = Zero3
    /\ entry = <<0, 0, 0>>
    /\ trains = 0 /\ ticks = 0
    /\ tonesSinceArm = 0 /\ wasDIS = 0 /\ tonePlayed = FALSE

\* ------------------------------------------------- fuel() and buzz() ----
\* int fuelPerc = (analog * (5.0 / 1023.0) * 300) / 5.0, truncated.  The
\* float result can fall short of the exact quotient only where that is an
\* integer (analog a multiple of 341); no sample is one.
FuelPerc(analog) == (analog * 300) \div AnalogMax

\* 100 * fuelAlarm / fuelMax in int arithmetic
AlarmThreshold == (100 * fuelAlarm) \div fuelMax

\* (variant: the latch re-arms from 50 % up)
FuelRearmsAtHalf(p) == p >= 50

FuelRearms(p) == p >= RearmPercent

\* (variant: every level below the re-arm level counts as low)
FuelLowBelowRearm(p) == p < RearmPercent

FuelLow(p) == p <= AlarmThreshold

\* (variant: the tone sequence ignores the latch)
buzzPlaysAlways(b) == TRUE

\* if (!buzzDIS) { ...tone sequence... }
buzzPlays(b) == b = 0

\* setup(): fill the display once; fuel() is evaluated before the interrupts
\* are attached.
setup ==
    /\ pc = "setup"
    /\ pc' = "fuel" /\ ret' = "attach"
    /\ UNCHANGED <<intEnabled, pending, counters, copies, clocks, alarm,
                   fetch, shown, ghosts, ticks>>

attachInterrupts ==
    /\ pc = "attach"
    /\ pc' = "start" /\ ret' = "test"
    /\ UNCHANGED << intEnabled, pending, counters, copies, clocks, alarm,
                   fetch, shown, ghosts, ticks>>

\* fuel(): short int analog = analogRead(A1); int fuelPerc = ...
fuelSample ==
    /\ pc = "fuel" /\ MainRuns
    /\ \E analog \in AnalogSamples : fuelPerc' = FuelPerc(analog)
    /\ wasDIS' = buzzDIS /\ tonePlayed' = FALSE
    /\ pc' = "fuel_if"
    /\ UNCHANGED <<ret, intEnabled, pending, counters, copies, clocks,
                   buzzDIS, tonesSinceArm, fetch, shown, ghosts, ticks>>

\* fuel(): the alarm decision; buzz() is entered when the level is low and
\* plays the tone sequence only if buzzDIS is 0.
fuelDecide ==
    /\ pc = "fuel_if" /\ MainRuns
    /\ IF FuelRearms(fuelPerc)
       THEN /\ buzzDIS' = 0 /\ tonesSinceArm' = 0
            /\ pc' = "fuel_print" /\ tonePlayed' = tonePlayed
       ELSE IF FuelLow(fuelPerc)
            THEN IF buzzPlays(buzzDIS)
                 THEN /\ pc' = "tone"
                      /\ tonesSinceArm' = tonesSinceArm + 1
                      /\ tonePlayed' = TRUE
                      /\ buzzDIS' = buzzDIS
                 ELSE /\ pc' = "fuel_print"
                      /\ buzzDIS' = 1
                      /\ UNCHANGED <<tonesSinceArm, tonePlayed>>
            ELSE /\ pc' = "fuel_print"
                 /\ UNCHANGED <<buzzDIS, tonesSinceArm, tonePlayed>>
    /\ UNCHANGED <<ret, intEnabled, pending, counters, copies, clocks,
                   fuelPerc, wasDIS, fetch, shown, ghosts, ticks>>

\* (variant: buzz() leaves the latch as it was)
buzzNoLatch ==
    /\ pc = "tone" /\ MainRuns
    /\ buzzDIS' = buzzDIS
    /\ pc' = "fuel_print"
    /\ UNCHANGED <<ret, intEnabled, pending, counters, copies, clocks,
                   fuelPerc, tonesSinceArm, wasDIS, tonePlayed, fetch,
                   shown, ghosts, ticks>>

\* (variant: the tone sequence never ends)
buzzNeverReturns ==
    /\ pc = "tone" /\ MainRuns
    /\ pc' = "tone"
    /\ UNCHANGED <<ret, intEnabled, pending, counters, copies, clocks, alarm,
                   fetch, shown, ghosts, ticks>>

\* buzz(): the blocking tone sequence ends and buzzDIS = 1.
buzz ==
    /\ pc = "tone" /\ MainRuns
    /\ buzzDIS' = 1
    /\ pc' = "fuel_print"
    /\ UNCHANGED <<ret, intEnabled, pending, counters, copies, clocks,
                   fuelPerc, tonesSinceArm, wasDIS, tonePlayed, fetch,
                   shown, ghosts, ticks>>

\* fuel(): the bar and the percentage are printed and fuel() returns; its
\* local fuelPerc is gone.
fuelPrint ==
    /\ pc = "fuel_print" /\ MainRuns
    /\ fuelPerc' = 0 /\ wasDIS' = 0 /\ tonePlayed' = FALSE
    /\ pc' = ret
    /\ UNCHANGED <<ret, intEnabled, pending, counters, copies, clocks,
                   buzzDIS, tonesSinceArm, fetch, shown, ghosts, ticks>>

\* ------------------------------------------------------------ loop() ----
\* time_now = millis();
loopStart ==
    /\ pc = "start" /\ MainRuns
    /\ \E d \in Deltas :
         /\ d = 0 \/ ticks < MaxTicks
         /\ millis' = U32Add(millis, U32(d))
         /\ ticks' = IF d = 0 THEN ticks ELSE ticks + 1
         /\ sinceFast' = sinceFast + d
         /\ sinceSlow' = sinceSlow + d
    /\ time_now' = millis'
    /\ pc' = "fast"
    /\ UNCHANGED <<ret, intEnabled, pending, counters, copies, temper_time,
                   rtc_time, alarm, fetch, shown, ghosts>>

\* a <= b for two 32-bit values
U32Le(a, b) == a.hi < b.hi \/ (a.hi = b.hi /\ a.lo <= b.lo)

\* (variant: time_now is compared with the deadline temper_time + 1000)
FastDueByDeadline == U32Le(U32Add(temper_time, U32(FastInterval)), time_now)

FastDue == U32Ge(U32Sub(time_now, temper_time), FastInterval)

\* (variant: the slow test measures from the fast cadence's timestamp)
SlowDueFromFastStamp == U32Ge(U32Sub(time_now, temper_time), SlowInterval)

SlowDue == U32Ge(U32Sub(time_now, rtc_time), SlowInterval)

\* if (time_now - temper_time >= 1000) temper_time = time_now;
fastCadence ==
    /\ pc = "fast" /\ MainRuns
    /\ temper_time' = IF FastDue THEN time_now ELSE temper_time
    /\ sinceFast' = IF FastDue THEN 0 ELSE sinceFast
    /\ pc' = IF FastDue THEN "fast_tasks" ELSE "slow"
    /\ UNCHANGED <<ret, intEnabled, pending, counters, copies, millis,
                   time_now, rtc_time, sinceSlow, alarm, fetch, shown,
                   ghosts, ticks>>

\* temp(); voltage(); rpm(); read the sensors and write the display only
fastTasks ==
    /\ pc = "fast_tasks" /\ MainRuns
    /\ pc' = "slow"
    /\ UNCHANGED <<ret, intEnabled, pending, counters, copies, clocks, alarm,
                   fetch, shown, ghosts, ticks>>

\* if (time_now - rtc_time >= 15000) { rtc_time = time_now; rtc(); fuel(); }
slowCadence ==
    /\ pc = "slow" /\ MainRuns
    /\ IF SlowDue
       THEN rtc_time' = time_now /\ pc' = "fuel" /\ ret' = "test"
       ELSE rtc_time' = rtc_time /\ pc' = "test" /\ ret' = ret
    /\ sinceSlow' = IF SlowDue THEN 0 ELSE sinceSlow
    /\ UNCHANGED <<intEnabled, pending, counters, copies, millis, time_now,
                   temper_time, sinceFast, alarm, fetch, shown, ghosts,
                   ticks>>

\* if (countWheel * wheelCircum >= distance): countWheel is volatile and 16
\* bits wide, so it is fetched as two bytes with interrupts enabled; the
\* order of the two loads is the compiler's choice.  The loads are
\* consecutive instructions: one handler at most runs between them, since
\* the processor executes an instruction of the main program after each
\* return from a handler.
MidRead == {"test_hi", "test_lo"}

testLoadLow ==
    /\ pc = "test" /\ MainRuns
    /\ regWheel' = countWheel % 256 /\ served' = FALSE
    /\ pc' = "test_hi"
    /\ UNCHANGED <<ret, intEnabled, pending, counters, copies, clocks, alarm,
                   shown, ghosts, ticks>>

testLoadHigh ==
    /\ pc = "test" /\ MainRuns
    /\ regWheel' = (countWheel \div 256) * 256 /\ served' = FALSE
    /\ pc' = "test_lo"
    /\ UNCHANGED <<ret, intEnabled, pending, counters, copies, clocks, alarm,
                   shown, ghosts, ticks>>

\* No count brings w * 1.915 within float rounding of 500: 261 gives
\* 499.815 and 262 gives 501.73.
ThresholdReached(w) == w * wheelCircumMM >= distance * 1000

\* second load and the comparison; lastRead += interval is not kept: no
\* statement reads lastRead.
testCompare ==
    /\ pc \in MidRead /\ MainRuns
    /\ LET w == IF pc = "test_hi"
                THEN regWheel + (countWheel \div 256) * 256
                ELSE regWheel + (countWheel % 256)
       IN  pc' = IF ThresholdReached(w) THEN "cli" ELSE "start"
    /\ regWheel' = 0 /\ served' = FALSE
    /\ UNCHANGED <<ret, intEnabled, pending, counters, copies, clocks, alarm,
                   shown, ghosts, ticks>>

\* -------------------------------------------- the critical section ----
\* (variant: the critical section is entered with interrupts left enabled)
noInterruptsLeftOn ==
    /\ pc = "cli" /\ MainRuns
    /\ intEnabled' = intEnabled
    /\ entry' = counters /\ deferred' = Zero3
    /\ pc' = "copy1"
    /\ UNCHANGED <<ret, pending, counters, copies, clocks, alarm, fetch,
                   shown, pulses, snapSum, trains, ticks>>

noInterrupts ==
    /\ pc = "cli" /\ MainRuns
    /\ intEnabled' = FALSE
    /\ entry' = counters /\ deferred' = Zero3
    /\ pc' = "copy1"
    /\ UNCHANGED <<ret, pending, counters, copies, clocks, alarm, fetch,
                   shown, pulses, snapSum, trains, ticks>>

\* copyFlow1 = countFlow1; the unsigned 16-bit value is converted to float,
\* which represents every value below 2^24 exactly.
copy1 ==
    /\ pc = "copy1" /\ MainRuns
    /\ copyFlow1' = countFlow1
    /\ snapSum' = [snapSum EXCEPT !["flow1"] = @ + countFlow1]
    /\ pc' = "copy2"
    /\ UNCHANGED <<ret, intEnabled, pending, counters, copyFlow2, copyWheel,
                   clocks, alarm, fetch, shown, pulses, deferred, entry,
                   trains, ticks>>

copy2 ==
    /\ pc = "copy2" /\ MainRuns
    /\ copyFlow2' = countFlow2
    /\ snapSum' = [snapSum EXCEPT !["flow2"] = @ + countFlow2]
    /\ pc' = "copy3"
    /\ UNCHANGED <<ret, intEnabled, pending, counters, copyFlow1, copyWheel,
                   clocks, alarm, fetch, shown, pulses, deferred, entry,
                   trains, ticks>>

copy3 ==
    /\ pc = "copy3" /\ MainRuns
    /\ copyWheel' = countWheel
    /\ snapSum' = [snapSum EXCEPT !["wheel"] = @ + countWheel]
    /\ pc' = "zero1"
    /\ UNCHANGED <<ret, intEnabled, pending, counters, copyFlow1, copyFlow2,
                   clocks, alarm, fetch, shown, pulses, deferred, entry,
                   trains, ticks>>

zero1 ==
    /\ pc = "zero1" /\ MainRuns
    /\ countFlow1' = 0
    /\ pc' = "zero2"
    /\ UNCHANGED <<ret, intEnabled, pending, countFlow2, countWheel, copies,
                   clocks, alarm, fetch, shown, ghosts, ticks>>

\* (variant: countFlow2 is not cleared)
zero2Skipped ==
    /\ pc = "zero2" /\ MainRuns
    /\ countFlow2' = countFlow2
    /\ pc' = "zero3"
    /\ UNCHANGED <<ret, intEnabled, pending, countFlow1, countWheel, copies,
                   clocks, alarm, fetch, shown, ghosts, ticks>>

zero2 ==
    /\ pc = "zero2" /\ MainRuns
    /\ countFlow2' = 0
    /\ pc' = "zero3"
    /\ UNCHANGED <<ret, intEnabled, pending, countFlow1, countWheel, copies,
                   clocks, alarm, fetch, shown, ghosts, ticks>>

zero3 ==
    /\ pc = "zero3" /\ MainRuns
    /\ countWheel' = 0
    /\ pc' = "sei"
    /\ UNCHANGED <<ret, intEnabled, pending, countFlow1, countFlow2, copies,
                   clocks, alarm, fetch, shown, ghosts, ticks>>

interrupts ==
    /\ pc = "sei" /\ MainRuns
    /\ intEnabled' = TRUE
    /\ pc' = "consume"
    /\ UNCHANGED <<ret, pending, counters, copies, clocks, alarm, fetch,
                   shown, ghosts, ticks>>

\* ------------------------------------------------ interrupt handlers ----
\* k executions of the handler of line l: count++ on an unsigned short.
Isr(l, k) ==
    /\ countFlow1' = IF l = "flow1" THEN (countFlow1 + k) % CounterMod
                     ELSE countFlow1
    /\ countFlow2' = IF l = "flow2" THEN (countFlow2 + k) % CounterMod
                     ELSE countFlow2
    /\ countWheel' = IF l = "wheel" THEN (countWheel + k) % CounterMod
                     ELSE countWheel

TrainSizes(l) == CASE l = "flow1" -> TrainFlow1
                   [] l = "flow2" -> TrainFlow2
                   [] l = "wheel" -> TrainWheel

\* attachInterrupt() has run: ret is "attach" from the start until then.
Attached == ret # "attach"

\* k rising edges on line l while interrupts are enabled: each one is served
\* at once.  Between the two byte loads of the threshold test there is time
\* for one edge only.
isrTrain(l) ==
    /\ Attached /\ intEnabled /\ ~AnyPending
    /\ trains < MaxTrains
    /\ \E k \in TrainSizes(l) :
         /\ pc \in MidRead => (k = 1 /\ ~served)
         /\ Isr(l, k)
         /\ pulses' = [pulses EXCEPT ![l] = @ + k]
    /\ served' = (pc \in MidRead)
    /\ regWheel' = regWheel
    /\ trains' = trains + 1
    /\ UNCHANGED <<pc, ret, intEnabled, pending, copies, clocks, alarm,
                   shown, snapSum, deferred, entry, ticks>>

\* A rising edge on line l while interrupts are disabled sets the line's
\* interrupt flag; the flag is one bit, a second edge finds it already set.
edgeMasked(l) ==
    /\ ~intEnabled
    /\ trains < MaxTrains
    /\ pending' = [pending EXCEPT ![l] = TRUE]
    /\ pulses' = [pulses EXCEPT ![l] = @ + 1]
    /\ deferred' = [deferred EXCEPT ![l] = @ + 1]
    /\ trains' = trains + 1
    /\ UNCHANGED <<pc, ret, intEnabled, counters, copies, clocks, alarm,
                   fetch, shown, snapSum, entry, ticks>>

\* The latched interrupt of line l is served once interrupts are enabled.
isrPending(l) ==
    /\ intEnabled /\ pending[l]
    /\ Isr(l, 1)
    /\ pending' = [pending EXCEPT ![l] = FALSE]
    /\ UNCHANGED <<pc, ret, intEnabled, copies, clocks, alarm, fetch,
                   shown, ghosts, ticks>>

\* ------------------------------------------------------ consumption() ----
\* Values are kept exactly, in thousandths, as quotients of products; the
\* display shows two decimals (Print::print(double) adds 0.005 and cuts).
\* Binary32 rounding of the intermediate results is not reproduced.
Shown(thousandths, unit) ==
    LET h == BigDiv(BigMulCarry(thousandths, 1, 5), 10)
    IN  [kind |-> "num", whole |-> BigToInt(BigDiv(h, 100)),
         frac |-> BigDivRem(h, 100).r, unit |-> unit]

ShownInf(unit) == [kind |-> "inf", whole |-> 0, frac |-> 0, unit |-> unit]

ZeroText(unit) == [kind |-> "num", whole |-> 0, frac |-> 0, unit |-> unit]

\* diff = 100 * abs(copyFlow1/450 - copyFlow2/450), in thousandths
DiffThousandths(f1, f2) ==
    BigDiv(BigMulAll(<<Abs(f1 - f2)>>, <<100, 1000>>), PulsesPerLitre)

\* consumption = (diff / copyWheel) * coeff with
\*   copyWheel = pulses * wheelCircum and coeff = 100000 / copyWheel
Per100km(f1, f2, w) ==
    BigDivAll(BigMulAll(<<Abs(f1 - f2)>>,
                        <<100, 1000, 100000, 1000, 1000>>),
              <<PulsesPerLitre, w, wheelCircumMM, w, wheelCircumMM>>)

\* consumption = (60 / interval) * diff: 60 / interval is an integer division
PerMinute(f1, f2) == BigMul(DiffThousandths(f1, f2), 60 \div interval)

ShownNan(unit) == [kind |-> "nan", whole |-> 0, frac |-> 0, unit |-> unit]

\* (variant: the first figure is printed without the "consumption > 0" test)
consumptionUntested(f1, f2, w) ==
    LET first  == IF w > 0
                  THEN Shown(Per100km(f1, f2, w), "L/100 km")
                  ELSE IF f1 # f2
                       THEN ShownInf("L/100 km")
                       ELSE ShownNan("L/100 km")
        second == IF w <= 0
                  THEN <<Shown(PerMinute(f1, f2), "L/min")>>
                  ELSE <<>>
    IN  [lcd |-> <<first>> \o second, divZero |-> (w = 0)]

\* What consumption(copyFlow1, copyFlow2, copyWheel) prints on row 2, in
\* order, and whether it divided by a zero copyWheel.
consumption(f1, f2, w) ==
    LET \* lines 294-295: with copyWheel = 0 the quotients are +inf, or NaN
        \* when diff is 0 as well; "consumption > 0" holds for +inf only
        first  == IF w > 0
                  THEN IF f1 # f2
                       THEN Shown(Per100km(f1, f2, w), "L/100 km")
                       ELSE ZeroText("L/100 km")
                  ELSE IF f1 # f2
                       THEN ShownInf("L/100 km")
                       ELSE ZeroText("L/100 km")
        second == IF w <= 0
                  THEN <<Shown(PerMinute(f1, f2), "L/min")>>
                  ELSE <<>>
    IN  [lcd |-> <<first>> \o second, divZero |-> (w = 0)]

consumptionCall ==
    /\ pc = "consume" /\ MainRuns
    /\ lcd' = consumption(copyFlow1, copyFlow2, copyWheel).lcd
    /\ divZero' = consumption(copyFlow1, copyFlow2, copyWheel).divZero
    /\ deferred' = Zero3
    /\ pc' = "start"
    /\ UNCHANGED <<ret, intEnabled, pending, counters, copies, clocks, alarm,
                   fetch, pulses, snapSum, entry, trains, ticks>>

\* ------------------------------------------- what a statement executes ----
\* The main program's next statement reads (a byte of) a pulse counter: the
\* threshold test and the three copies.
ReadsCounter ==
    pc \in {"test"} \cup MidRead \cup {"copy1", "copy2", "copy3"}

\* The main program's next statement converts an integer to floating point:
\* copyFlow1, copyFlow2 and copyWheel are float and the counters unsigned
\* short, so each copy converts; the threshold test converts the value it
\* has fetched before multiplying by wheelCircum.
ConvertsToFloat ==
    pc \in MidRead \cup {"copy1", "copy2", "copy3"}

\* The main program is in a sensor or display routine or in consumption().
ComputesOrDisplays ==
    pc \in {"setup", "fuel", "fuel_if", "tone", "fuel_print", "fast_tasks",
            "consume"}

\* ----------------------------------------------------- specifications ----
Next ==
    \/ setup
    \/ attachInterrupts
    \/ fuelSample
    \/ fuelDecide
    \/ buzz
    \/ fuelPrint
    \/ loopStart
    \/ fastCadence
    \/ fastTasks
    \/ slowCadence
    \/ testLoadLow
    \/ testLoadHigh
    \/ testCompare
    \/ noInterrupts
    \/ copy1
    \/ copy2
    \/ copy3
    \/ zero1
    \/ zero2
    \/ zero3
    \/ interrupts
    \/ consumptionCall
    \/ \E l \in Lines : isrTrain(l)
    \/ \E l \in Lines : edgeMasked(l)
    \/ \E l \in Lines : isrPending(l)

Spec == Init /\ [][Next]_vars

\* The main program always executes its next statement (setup() returns and
\* loop() is called again for ever, delay() and tone sequences included), and
\* a latched interrupt is served once interrupts are enabled.
MainStep ==
    \/ setup
    \/ attachInterrupts
    \/ fuelSample
    \/ fuelDecide
    \/ buzz
    \/ fuelPrint
    \/ loopStart
    \/ fastCadence
    \/ fastTasks
    \/ slowCadence
    \/ testLoadLow
    \/ testLoadHigh
    \/ testCompare
    \/ noInterrupts
    \/ copy1
    \/ copy2
    \/ copy3
    \/ zero1
    \/ zero2
    \/ zero3
    \/ interrupts
    \/ consumptionCall

\* Only the wheel sensor pulses: the flow counters play no part in the
\* distance trigger.
NextLive ==
    \/ MainStep
    \/ isrTrain("wheel")
    \/ edgeMasked("wheel")
    \/ isrPending("wheel")

SpecLive ==
    /\ Init /\ [][NextLive]_vars
    /\ WF_vars(MainStep) /\ WF_vars(isrPending("wheel"))

\* consumption() on its own: the snapshot is any triple of the input domains
InitCons ==
    /\ pc = "consume" /\ ret = "test"
    /\ intEnabled = TRUE /\ pending = NoLine
    /\ countFlow1 = 0 /\ countFlow2 = 0 /\ countWheel = 0
    /\ copyFlow1 \in ConsFlows /\ copyFlow2 \in ConsFlows
    /\ copyWheel \in ConsWheels
    /\ buzzDIS = 0
    /\ millis = U32(0) /\ time_now = U32(0)
    /\ temper_time = U32(0) /\ rtc_time = U32(0)
    /\ sinceFast = 0 /\ sinceSlow = 0
    /\ fuelPerc = 0 /\ regWheel = 0 /\ served = FALSE
    /\ lcd = <<>> /\ divZero = FALSE
    /\ pulses = Zero3 /\ snapSum = Zero3 /\ deferred = Zero3
    /\ entry = <<0, 0, 0>>
    /\ trains = 0 /\ ticks = 0
    /\ tonesSinceArm = 0 /\ wasDIS = 0 /\ tonePlayed = FALSE

NextCons == consumptionCall

SpecCons == InitCons /\ [][NextCons]_vars

\* The cadences around the wrap of millis() after 2^32 ms of running, with no
\* pulses arriving.  Both cadences last fired 500 ms before the wrap or the
\* slow one 14 s earlier, and the last read of millis() was then, just
\* before the wrap or just after it.
WrapStamp == [hi |-> 65535, lo |-> 65036]

SlowLag == {0, 14000}

ReadLag == {0, 499, 999}

InitWrap ==
    /\ pc = "start" /\ ret = "test"
    /\ intEnabled = TRUE /\ pending = NoLine
    /\ countFlow1 = 0 /\ countFlow2 = 0 /\ countWheel = 0
    /\ copyFlow1 = 0 /\ copyFlow2 = 0 /\ copyWheel = 0
    /\ buzzDIS \in {0, 1}
    /\ \E lag \in SlowLag, back \in ReadLag :
         /\ millis = U32Add(WrapStamp, U32(back))
         /\ temper_time = WrapStamp
         /\ rtc_time = U32Sub(WrapStamp, U32(lag))
         /\ sinceFast = back /\ sinceSlow = lag + back
    /\ time_now = millis
    /\ fuelPerc = 0 /\ regWheel = 0 /\ served = FALSE
    /\ lcd = <<>> /\ divZero = FALSE
    /\ pulses = Zero3 /\ snapSum = Zero3 /\ deferred = Zero3
    /\ entry = <<0, 0, 0>>
    /\ trains = 0 /\ ticks = 0
    /\ tonesSinceArm = 0 /\ wasDIS = 0 /\ tonePlayed = FALSE

NextWrap ==
    \/ loopStart
    \/ fastCadence
    \/ fastTasks
    \/ slowCadence
    \/ fuelSample
    \/ fuelDecide
    \/ buzz
    \/ fuelPrint
    \/ testLoadLow
    \/ testLoadHigh
    \/ testCompare

SpecWrap == InitWrap /\ [][NextWrap]_vars

\* ============================================================ claims ====
Quiescent == intEnabled /\ ~AnyPending

\* C1: pulse conservation.  Whenever no snapshot is in progress and no
\* interrupt is latched, for each line the sum of the values copied into the
\* snapshots so far plus the current counter equals the number of pulses
\* generated on the line so far.
C1_PulseConservation ==
    Quiescent => \A l \in Lines : snapSum[l] + Count(l) = pulses[l]

\* C2: a pulse arriving while interrupts are disabled by the snapshot is not
\* in the snapshot being taken and is counted for the next one, however many
\* arrive on one line: when the last latched interrupt has been served the
\* snapshot is the counter triple of the moment of noInterrupts() and each
\* counter holds the number of edges that arrived in the critical section.
C2_DeferredToNextSnapshot ==
    [][(intEnabled /\ AnyPending /\ ~AnyPending')
        => /\ copies' = entry'
           /\ countFlow1' = deferred'["flow1"]
           /\ countFlow2' = deferred'["flow2"]
           /\ countWheel' = deferred'["wheel"]]_vars

\* C3: between noInterrupts() and interrupts() no handler changes a counter
\* (a counter is what it was at noInterrupts(), or already zeroed by the main
\* loop), and the snapshot triple is the counter triple of that one instant.
C3_SingleInstantSnapshot ==
    /\ pc \in {"copy1", "copy2", "copy3", "zero1"} => counters = entry
    /\ pc \in {"copy2", "copy3", "zero1", "zero2", "zero3", "sei", "consume"}
         => copyFlow1 = entry[1]
    /\ pc \in {"copy3", "zero1", "zero2", "zero3", "sei", "consume"}
         => copyFlow2 = entry[2]
    /\ pc \in {"zero1", "zero2", "zero3", "sei", "consume"}
         => copyWheel = entry[3]
    /\ pc \in {"copy1", "copy2", "copy3", "zero1", "zero2", "zero3", "sei"}
         => /\ ~intEnabled
            /\ countFlow1 \in {entry[1], 0}
            /\ countFlow2 \in {entry[2], 0}
            /\ countWheel \in {entry[3], 0}

\* a snapshot of a non-zero triple is complete and an edge arrived meanwhile
C3_Witness ==
    /\ pc = "sei" /\ AnyPending
    /\ copyFlow1 > 0 /\ copyWheel > 0
    /\ copies = entry

\* C4: at the moment interrupts() re-enables interrupts the three counters
\* are zero.
C4_ResetPostcondition ==
    [][(~intEnabled /\ intEnabled')
        => /\ counters = <<0, 0, 0>>
           /\ counters' = <<0, 0, 0>>]_vars

\* about to re-enable after a snapshot of non-zero flow and wheel counts,
\* with an edge latched during the critical section
C4_Witness ==
    /\ pc = "sei" /\ pending["flow2"]
    /\ entry[2] > 0 /\ entry[3] > 0
    /\ counters = <<0, 0, 0>>

\* C5: no counter ever wraps: a counter decreases only by the main loop's
\* zeroing of it.
C5_NoSilentWrap ==
    [][/\ countFlow1' < countFlow1 => pc = "zero1"
       /\ countFlow2' < countFlow2 => pc = "zero2"
       /\ countWheel' < countWheel => pc = "zero3"]_vars

\* C6: starting armed, the tone sequence is played in an evaluation of
\* fuel() exactly when the latch is armed and the percentage is at or below
\* 100 * fuelAlarm / fuelMax; the latch is disarmed when the tone ends; and
\* at most one tone sequence is played between two re-arm events.
C6_AlarmOncePerCrossing ==
    [][/\ (pc = "fuel_if" /\ pc' # "fuel_if")
            => ((pc' = "tone") <=> (buzzDIS = 0 /\ fuelPerc <= AlarmThreshold))
       /\ (pc = "tone" /\ pc' # "tone") => buzzDIS' = 1
       /\ tonesSinceArm' <= 1]_vars

\* an evaluation in the loop has just played the tone and disarmed the latch
C6_Witness ==
    /\ pc = "fuel_print" /\ ret = "test"
    /\ tonePlayed /\ wasDIS = 0 /\ buzzDIS = 1
    /\ fuelPerc <= AlarmThreshold
    /\ tonesSinceArm = 1

\* C7: an evaluation of fuel() that starts disarmed with a percentage below
\* 80 plays no tone, whatever the percentage.
C7_NoAlarmWhileDisarmed ==
    (pc \in {"tone", "fuel_print"} /\ wasDIS = 1 /\ fuelPerc < RearmPercent)
        => (pc # "tone" /\ ~tonePlayed)

\* a disarmed evaluation at or below the low threshold went by silently
C7_Witness ==
    /\ pc = "fuel_print"
    /\ wasDIS = 1 /\ buzzDIS = 1
    /\ fuelPerc <= AlarmThreshold
    /\ ~tonePlayed

\* C8: the latch goes from disarmed to armed only in the decision of fuel()
\* and only with a percentage of at least 80.
C8_RearmOnlyAtEighty ==
    [][(buzzDIS = 1 /\ buzzDIS' = 0)
        => (pc = "fuel_if" /\ fuelPerc >= RearmPercent)]_vars

\* an evaluation that started disarmed has re-armed the latch
C8_Witness ==
    /\ pc = "fuel_print"
    /\ wasDIS = 1 /\ buzzDIS = 0
    /\ fuelPerc >= RearmPercent

Hundredths(p) == p.whole * 100 + p.frac

LastShown == lcd[Len(lcd)]

\* C9: given a snapshot of zero distance, consumption() ends with litres per
\* minute on the display and performs no division by the zero distance.
C9_StationaryGuard ==
    (lcd # <<>> /\ copyWheel * wheelCircumMM = 0)
        => (LastShown.unit = "L/min" /\ ~divZero)

\* (fuelDelta / distanceMeters) * 100000 with fuelDelta = |f1/450 - f2/450|
\* and distanceMeters = w * wheelCircum, in thousandths
ClaimedPer100km(f1, f2, w) ==
    BigDivAll(BigMulAll(<<Abs(f1 - f2)>>, <<1000, 1000, 100000>>),
              <<PulsesPerLitre, w, wheelCircumMM>>)

\* C10: for a snapshot of positive distance the figure shown in L/100 km is
\* (fuelDelta / distanceMeters) * 100000, to the display's two decimals.
C10_Per100kmFormula ==
    (lcd # <<>> /\ copyWheel > 0)
        => /\ LastShown.unit = "L/100 km"
           /\ LastShown.kind = "num"
           /\ Abs(Hundredths(LastShown)
                  - Hundredths(Shown(ClaimedPer100km(copyFlow1, copyFlow2,
                                                     copyWheel),
                                     "L/100 km"))) <= 1

\* C11: for a snapshot with copyFlow1 = copyFlow2 every figure consumption()
\* prints is the number 0.00, and the last one is in L/100 km when the
\* distance count is positive and in L/min when it is zero.
C11_ZeroFuelDelta ==
    (lcd # <<>> /\ copyFlow1 = copyFlow2)
        => /\ \A i \in 1..Len(lcd) :
                lcd[i].kind = "num" /\ Hundredths(lcd[i]) = 0
           /\ LastShown.unit = IF copyWheel > 0 THEN "L/100 km" ELSE "L/min"

\* equal non-zero flow counts with no distance covered
C11_Witness ==
    /\ lcd # <<>> /\ pc = "start"
    /\ copyFlow1 = copyFlow2 /\ copyFlow1 > 0 /\ copyWheel = 0
    /\ LastShown = ZeroText("L/min")

\* C12: the main loop reads countFlow1, countFlow2 and countWheel only with
\* interrupts disabled.
C12_ReadsOnlyInSnapshot == ReadsCounter => ~intEnabled

\* fuelDelta * (60 / windowSeconds) with windowSeconds = interval / 1000,
\* in thousandths
ClaimedPerMinute(f1, f2) ==
    BigDivAll(BigMulAll(<<Abs(f1 - f2)>>, <<1000, 60, 1000>>),
              <<PulsesPerLitre, interval>>)

\* C13: for a snapshot of zero distance the figure shown in L/min is
\* fuelDelta * (60 / windowSeconds), to the display's two decimals, and it is
\* not zero when the two flow counts differ by a litre or more.
C13_StationaryRate ==
    (lcd # <<>> /\ copyWheel = 0)
        => /\ LastShown.unit = "L/min"
           /\ Abs(Hundredths(LastShown)
                  - Hundredths(Shown(ClaimedPerMinute(copyFlow1, copyFlow2),
                                     "L/min"))) <= 1
           /\ Abs(copyFlow1 - copyFlow2) >= PulsesPerLitre
                => Hundredths(LastShown) > 0

\* C16: while interrupts are disabled the main loop converts no integer to
\* floating point and is in no sensor, display or consumption routine;
\* consumption() is entered with interrupts enabled.
C16_MinimalCriticalSection ==
    ~intEnabled => (~ConvertsToFloat /\ ~ComputesOrDisplays)

\* C15: in every iteration the fast tasks run exactly when
\* time_now - temper_time >= 1000 and rtc() and fuel() exactly when
\* time_now - rtc_time >= 15000; a firing sets the cadence's timestamp to
\* time_now and comes at least the interval after the previous one; a
\* timestamp changes at its own cadence only; and the slow test follows the
\* fast test and the distance test follows the slow test whatever fired.
C15_TimeCadences ==
    [][/\ (pc = "fast" /\ pc' # "fast")
            => /\ pc' = IF U32Ge(U32Sub(time_now, temper_time), FastInterval)
                        THEN "fast_tasks" ELSE "slow"
               /\ temper_time' =
                    IF pc' = "fast_tasks" THEN time_now ELSE temper_time
               /\ pc' = "fast_tasks" => sinceFast >= FastInterval
       /\ (pc = "fast_tasks" /\ pc' # "fast_tasks") => pc' = "slow"
       /\ (pc = "slow" /\ pc' # "slow")
            => /\ pc' = IF U32Ge(U32Sub(time_now, rtc_time), SlowInterval)
                        THEN "fuel" ELSE "test"
               /\ rtc_time' = IF pc' = "fuel" THEN time_now ELSE rtc_time
               /\ pc' = "fuel" <=> sinceSlow >= SlowInterval
       /\ (pc = "fuel_print" /\ ret = "test" /\ pc' # "fuel_print")
            => pc' = "test"
       /\ temper_time' # temper_time => pc = "fast"
       /\ rtc_time' # rtc_time => pc = "slow"]_vars

\* an iteration in which the fast cadence fired and the slow one did not,
\* after an earlier firing of the slow cadence
C15_Witness ==
    /\ pc = "test" /\ ret = "test"
    /\ temper_time = time_now /\ sinceFast = 0
    /\ rtc_time # time_now /\ rtc_time # U32(0)
    /\ sinceSlow = FastInterval

\* C20: across the wrap of millis() from 2^32 - 1 to 0 a cadence fires in an
\* iteration exactly when at least its interval of real time has passed
\* since its last firing: never earlier, and never later than the first
\* iteration after the interval.
C20_CadencesAcrossWrap ==
    [][/\ (pc = "fast" /\ pc' # "fast")
            => /\ pc' = "fast_tasks" <=> sinceFast >= FastInterval
               /\ sinceFast >= FastInterval => temper_time' = time_now
       /\ (pc = "slow" /\ pc' # "slow")
            => /\ pc' = "fuel" <=> sinceSlow >= SlowInterval
               /\ sinceSlow >= SlowInterval => rtc_time' = time_now]_vars

\* the clock has wrapped, the fast cadence has fired exactly 1000 ms after
\* its firing before the wrap and the slow one is due from before the wrap
C20_Witness ==
    /\ pc = "fast_tasks"
    /\ time_now = U32(500) /\ temper_time = time_now
    /\ rtc_time.hi = 65535 /\ sinceSlow = SlowInterval

\* C14: an iteration of loop() enters the snapshot exactly when
\* countWheel * wheelCircum >= distance at its test, so that after a snapshot
\* has zeroed countWheel the next one waits for 262 further wheel pulses.
C14_TriggerOncePerThreshold ==
    [][(pc \in MidRead /\ pc' \notin MidRead)
        => (pc' = "cli" <=> ThresholdReached(countWheel))]_vars

\* C17: every call of consumption() made by loop() receives a snapshot with
\* copyWheel * wheelCircum >= distance, in particular a positive copyWheel.
C17_SnapshotAtThreshold ==
    pc = "consume" => (ThresholdReached(copyWheel) /\ copyWheel > 0)

\* C19: an evaluation of fuel() with a percentage strictly between
\* 100 * fuelAlarm / fuelMax and 80 leaves buzzDIS as it was and plays no
\* tone, and buzzDIS changes in the decision of fuel() and at the end of
\* buzz() only.
C19_LatchFrame ==
    [][/\ (pc = "fuel_if" /\ pc' # "fuel_if"
           /\ fuelPerc > AlarmThreshold /\ fuelPerc < RearmPercent)
            => (buzzDIS' = buzzDIS /\ pc' = "fuel_print" /\ ~tonePlayed')
       /\ buzzDIS' # buzzDIS => pc \in {"fuel_if", "tone"}]_vars

\* an evaluation in the loop, one percent above the low threshold, has left
\* the armed latch armed, after a snapshot was taken
C19_Witness ==
    /\ pc = "fuel_print" /\ ret = "test"
    /\ fuelPerc = AlarmThreshold + 1
    /\ wasDIS = 0 /\ buzzDIS = 0 /\ ~tonePlayed
    /\ lcd # <<>>

\* the states C18 speaks of
WheelAtThreshold == \E w \in {countWheel} : ThresholdReached(w)

ToneWithInterrupts == pc = "tone" => intEnabled

ConsumptionEntered == pc = "consume" /\ intEnabled

\* C18: while the main loop keeps running, whenever
\* countWheel * wheelCircum >= distance holds a snapshot and reset followed
\* by a call of consumption() eventually follows; and interrupts are enabled
\* all through the alarm tone, so pulses arriving then are counted.
C18_SnapshotEventually ==
    /\ []ToneWithInterrupts
    /\ (WheelAtThreshold ~> ConsumptionEntered)

\* the threshold is reached while the loop is blocked in the alarm tone
C18_Witness ==
    /\ pc = "tone" /\ ret = "test" /\ intEnabled
    /\ ThresholdReached(countWheel)
    /\ pulses["wheel"] = countWheel

====
